---- MODULE Spec2Model ----
(***************************************************************************)
(* A model of the save manager of src/manager.py: the profile registry,    *)
(* the per-profile snapshot store, and the swap of the live game directory *)
(* with a stored snapshot (Manager._set_save).                             *)
(*                                                                         *)
(* The file system is part of the state: the PROFILES file, the profile    *)
(* directories under the manager directory (each with its SAVES file, its  *)
(* backup directory and its snapshot directories) and the live game        *)
(* directories.  A directory tree is a value: two directories hold the     *)
(* same files exactly when their values are equal.                         *)
(***************************************************************************)
EXTENDS Integers, Sequences, FiniteSets, TLC

(***************************************************************************)
(* Bounds of the model.                                                    *)
(***************************************************************************)
\* save names a user may type in the store specification
MaxStoreSaves == 3
\* save names a user may type in the full specification
MaxSaves == 2
\* distinct contents the game may write to a live directory
MaxTree == 2
\* profile names a user may type
MaxProfileNames == 2
\* game directories a profile may point at
MaxGameDirs == 1
\* cap on the length of the registry (an overwrite appends a second entry)
MaxProfiles == 2

StoreSaveNames == 1..MaxStoreSaves
SaveNames == 1..MaxSaves
AllSaveNames == StoreSaveNames \cup SaveNames
ProfileNames == 1..MaxProfileNames
GameDirs == 1..MaxGameDirs

(***************************************************************************)
(* Directory trees.  NoDir: the path does not exist.  Tree(t): a complete  *)
(* tree with contents t.  Partial: what an interrupted copytree leaves.    *)
(***************************************************************************)
NoDir == <<"absent", 0>>
Tree(t) == <<"tree", t>>
Partial == <<"partial", 0>>
Trees == {Tree(t) : t \in 1..MaxTree}

\* os.path.exists / os.path.isdir of a directory path
Exists(d) == d # NoDir
\* mutant of isdir: the game directory is taken to be there
isdirAssumed(d) == TRUE
\* os.path.isdir of the game directory in _create
isdir(d) == d # NoDir
\* the greatest modification time under a directory: the stamp of its
\* contents, which shutil.copytree (copy2, copystat) carries over to the copy
getmtime(d) == d[2]

(***************************************************************************)
(* Manager._hash: the sha1 hex digest of a name.  A digest is a value of   *)
(* its own kind (never a name, never "backup" or "SAVES"), the same for    *)
(* the same name and different for different names.                        *)
(***************************************************************************)
_hash(s) == <<"sha1", s>>

ProfileTokens == {_hash(n) : n \in ProfileNames}
SaveTokens == {_hash(n) : n \in AllSaveNames}

\* class Save: only the name is used (tags stay empty)
Save(name) == [name |-> name]
\* class Profile
Profile(name, game_directory) == [name |-> name, game_directory |-> game_directory]
\* self.profile = None
None == [name |-> 0, game_directory |-> 0]

\* a file that does not exist / a pickled file holding data
NoFile == [exists |-> FALSE, data |-> <<>>]
File(data) == [exists |-> TRUE, data |-> data]

\* a profile directory that does not exist, and one just made by os.mkdir
NoProfileDir ==
    [exists |-> FALSE, SAVES |-> NoFile, backup |-> NoDir,
     snaps |-> [k \in SaveTokens |-> NoDir]]
EmptyProfileDir ==
    [exists |-> TRUE, SAVES |-> NoFile, backup |-> NoDir,
     snaps |-> [k \in SaveTokens |-> NoDir]]

(***************************************************************************)
(* Sequence helpers (Python list operations, 0-based indices).             *)
(***************************************************************************)
\* del s[i] / s.pop(i)
DelAt(s, i) == SubSeq(s, 1, i) \o SubSeq(s, i + 2, Len(s))
\* s.insert(i, x), 0 <= i <= len(s)
InsertAt(s, i, x) == SubSeq(s, 1, i) \o <<x>> \o SubSeq(s, i + 1, Len(s))
\* s[i] with Python's negative indices; defined for -len(s) <= i < len(s)
PyValid(s, i) == (0 - Len(s)) <= i /\ i < Len(s)
PyAt(s, i) == IF i < 0 THEN s[Len(s) + i + 1] ELSE s[i + 1]
Range(s) == {s[k] : k \in 1..Len(s)}
\* the first index (0-based) of a save named name, or -1
FirstNamed(s, name) ==
    IF \E k \in 1..Len(s) : s[k].name = name
        THEN (CHOOSE k \in 1..Len(s) :
                 s[k].name = name /\ \A j \in 1..(k - 1) : s[j].name # name) - 1
        ELSE -1

(***************************************************************************)
(* The state.                                                              *)
(*   On disk:   installed      whether the manager directory exists        *)
(*              profiles_file  the pickled ProfileList (PROFILES)          *)
(*              manager_dir    the profile directories, by digest          *)
(*              live           the game directories, by path               *)
(*   In memory: profiles, default (self.profiles), profile, saves,         *)
(*              last_save                                                  *)
(*   Control:   state  the MenuState the main loop is in, or the handler   *)
(*                     that is running _set_save, or CRASHED once an       *)
(*                     uncaught exception has ended the process, or OFF    *)
(*                     while the program is not running                    *)
(*              pc     the position inside _set_save or inside _autoload   *)
(*              index  the argument of the _set_save that is running       *)
(*              loop   the locals of _autoload                             *)
(*   History (not program state; read only by the properties):             *)
(*              startLive  the live tree when the running swap started     *)
(*              captured   the live tree each snapshot was captured from   *)
(*              once       the outcome of the last completed _set_save     *)
(*              last_op    the last handler that ran and what it returned  *)
(*              activated  the name of the save activated last             *)
(*              burst      the course of the last burst _autoload detected *)
(***************************************************************************)
VARIABLES installed, profiles_file, manager_dir, live,
          profiles, default, profile, saves, last_save,
          state, pc, index, loop,
          startLive, captured, once, last_op, activated, burst

disk == <<installed, profiles_file, manager_dir, live>>
mem == <<profiles, default, profile, saves, last_save>>
ctl == <<state, pc, index, loop>>
hist == <<startLive, captured, once, last_op, activated, burst>>
vars == <<disk, mem, ctl, hist>>

\* self.profile_dir, self.game_directory: set by _set_profile from the profile
profile_dir == _hash(profile.name)
game_directory == profile.game_directory
\* the active profile's directory on disk, and the live game directory
PD == manager_dir[profile_dir]
LiveDir == live[game_directory]
\* os.path.join(self.profile_dir, self._hash(name)) on disk
SaveDir(name) == IF PD.exists THEN PD.snaps[_hash(name)] ELSE NoDir

NoOnce ==
    [n |-> 0, index |-> 0, live |-> NoDir,
     saves |-> <<>>, last_save |-> 0, snap |-> NoDir]
Op(op, res, a, b) == [op |-> op, res |-> res, a |-> a, b |-> b]
\* a handler other than a swap has run: the history of the last swap ends
Ran(op, res, a, b) == last_op' = Op(op, res, a, b) /\ once' = NoOnce

NoCaptures == [p \in ProfileTokens |-> [k \in SaveTokens |-> NoDir]]

\* the locals of _autoload: save_number, last_time, current_time, the number
\* of iterations the for loop has made, and whether the try block is entered
NoLoop ==
    [save_number |-> 0, last_time |-> 0, current_time |-> 0, polls |-> 0,
     tried |-> FALSE]

\* history of a burst: the baseline t0 and the sample t1 of the poll that
\* detected it, whether its last two samples were equal, the number of
\* _set_save calls completed since, whether the game has written since the
\* last of them, and whether the loop is still in the burst
NoBurst ==
    [t0 |-> 0, t1 |-> 0, settled |-> FALSE, acts |-> 0, wrote |-> FALSE,
     open |-> FALSE]

(***************************************************************************)
(* File system helpers.                                                    *)
(***************************************************************************)
\* _set_save, step 1: if os.path.exists(backup_dir): shutil.rmtree(backup_dir)
BackupRemoved(pd) == [pd EXCEPT !.backup = NoDir]
\* mutant of Moved: the live directory is removed, not moved to backup
MovedAway(pd, tree) == [pd EXCEPT !.exists = TRUE]
\* _set_save, step 2: shutil.move(self.game_directory, backup_dir); the move
\* makes the profile directory when it is missing
Moved(pd, tree) == [pd EXCEPT !.exists = TRUE, !.backup = tree]
\* shutil.copytree(src, dest_dir) into a snapshot directory; copytree makes
\* the missing parents of its destination
Snapshot(pd, name, tree) ==
    [pd EXCEPT !.exists = TRUE, !.snaps[_hash(name)] = tree]
\* shutil.rmtree(save_dir)
SnapshotRemoved(pd, name) == [pd EXCEPT !.snaps[_hash(name)] = NoDir]
\* _write_saves_file: pickle.dump(self.saves, handle)
SavesWritten(pd, s) == [pd EXCEPT !.SAVES = File(s)]
\* pickle.load of the SAVES file in _set_profile; [] when there is none
SavesRead(pd) == IF pd.exists /\ pd.SAVES.exists THEN pd.SAVES.data ELSE <<>>

\* an uncaught exception leaves the handler and ends the process
Crash(op, a) ==
    /\ state' = "CRASHED" /\ pc' = "idle" /\ index' = 0 /\ loop' = NoLoop
    /\ last_op' = Op(op, "crash", 0, 0)
    /\ once' = NoOnce

(***************************************************************************)
(* Manager._set_save(index), in its three steps.  The handler that calls   *)
(* it (LOAD, RELOAD) is the value of state while it runs.                  *)
(***************************************************************************)
\* mutant of SaveToSet: the first save is taken whatever the index
SaveToSetFirst(s, i) == s[1].name
\* the save _set_save copies: self.saves[index].name
SaveToSet(s, i) == PyAt(s, i).name

\* step 1, entered from the calling handler: the stale backup is removed
SetSaveStart(i, caller) ==
    /\ manager_dir' = [manager_dir EXCEPT ![profile_dir] = BackupRemoved(@)]
    /\ state' = caller /\ pc' = "cleared" /\ index' = i
    /\ startLive' = LiveDir
    /\ once' = IF once.n >= 1 /\ once.index = i
                 THEN once
                 ELSE [NoOnce EXCEPT !.index = i,
                                     !.snap = SaveDir(SaveToSet(saves, i))]
    /\ last_op' = Op(caller, "running", 0, 0)
    /\ UNCHANGED <<installed, profiles_file, live, mem, captured, activated, burst>>

\* step 2: the live directory, if any, is moved to backup
_set_save_move ==
    /\ pc = "cleared"
    /\ IF Exists(LiveDir)
         THEN /\ manager_dir' =
                    [manager_dir EXCEPT ![profile_dir] = Moved(@, LiveDir)]
              /\ live' = [live EXCEPT ![game_directory] = NoDir]
         ELSE UNCHANGED <<manager_dir, live>>
    /\ pc' = "moved"
    /\ UNCHANGED <<installed, profiles_file, mem, state, index, loop, hist>>

\* self.last_save = index
LastSaveSet(i) == i

\* mutant of SourceKept: the snapshot is moved to the live path, not copied
SourceMoved(pd, name) == SnapshotRemoved(pd, name)
\* shutil.copytree(save_dir, self.game_directory) reads the snapshot and
\* leaves it in place
SourceKept(pd, name) == pd

\* step 3: the snapshot is copied to the live path; then last_save is set and
\* the calling handler returns MenuState.MODE_SELECT (_autoload goes on to
\* the sample that follows its _set_save).  copytree raises when the snapshot
\* is missing or the destination exists.
_set_save_copytree ==
    /\ pc = "moved"
    /\ LET name == SaveToSet(saves, index)
           src == SaveDir(name)
       IN IF ~Exists(src) \/ Exists(LiveDir)
            THEN /\ Crash(state, index)
                 /\ UNCHANGED <<disk, mem, startLive, captured, activated, burst>>
            ELSE /\ live' = [live EXCEPT ![game_directory] = src]
                 /\ last_save' = LastSaveSet(index)
                 /\ IF state = "AUTOLOAD"
                      THEN state' = "AUTOLOAD" /\ pc' = "baseline"
                      ELSE state' = "MODE_SELECT" /\ pc' = "idle"
                 /\ index' = 0
                 /\ startLive' = NoDir
                 /\ once' = IF once.n >= 1
                              THEN [once EXCEPT !.n = 2]
                              ELSE [once EXCEPT !.n = 1, !.live = src,
                                                !.saves = saves,
                                                !.last_save = LastSaveSet(index)]
                 /\ last_op' = Op(state, "ok", 0, 0)
                 /\ activated' = IF index < 0 THEN 0 ELSE name
                 /\ manager_dir' =
                       [manager_dir EXCEPT ![profile_dir] = SourceKept(@, name)]
                 /\ burst' = IF state = "AUTOLOAD"
                                THEN [burst EXCEPT
                                         !.acts = IF @ < 2 THEN @ + 1 ELSE 2,
                                         !.wrote = FALSE]
                                ELSE burst
                 /\ UNCHANGED <<installed, profiles_file, profiles, default,
                                profile, saves, captured, loop>>

\* step 3 fails part-way (an I/O error of copytree): nothing is rolled back,
\* the exception is not caught and the process ends
_set_save_copytree_error(left) ==
    /\ pc = "moved"
    /\ Exists(SaveDir(SaveToSet(saves, index)))
    /\ left \in {NoDir, Partial}
    /\ live' = [live EXCEPT ![game_directory] = left]
    /\ Crash(state, index)
    /\ UNCHANGED <<installed, profiles_file, manager_dir, mem, startLive, captured,
                   activated, burst>>

\* the handlers below return without a change: the exception or the early
\* return leaves the main loop in MenuState.MODE_SELECT
Unchanged(op, res, a) ==
    /\ Ran(op, res, a, 0)
    /\ UNCHANGED <<disk, mem, ctl, startLive, captured, activated, burst>>

_load(save_number) ==
    /\ state = "MODE_SELECT"
    /\ IF saves = <<>>
         THEN save_number = 0 /\ Unchanged("LOAD", "NoSaveException", 0)
         ELSE /\ save_number \in 0..(Len(saves) - 1)
              /\ SetSaveStart(save_number, "LOAD")
              /\ UNCHANGED loop

_reload ==
    /\ state = "MODE_SELECT"
    /\ IF saves = <<>>
         THEN Unchanged("RELOAD", "NoSaveException", 0)
         ELSE IF ~PyValid(saves, last_save)
                THEN /\ Crash("RELOAD", last_save)
                     /\ UNCHANGED <<disk, mem, startLive, captured, activated, burst>>
                ELSE SetSaveStart(last_save, "RELOAD") /\ UNCHANGED loop

(***************************************************************************)
(* Manager._create: capture the live directory under a name.               *)
(***************************************************************************)
\* mutant of Overwritten: the old record is kept
OverwrittenKept(s, name) == s
\* the overwrite branch: the first record named name is deleted
Overwritten(s, name) ==
    LET i == FirstNamed(s, name) IN IF i < 0 THEN s ELSE DelAt(s, i)

\* shutil.copytree(game_directory, dest_dir); saves.append; _write_saves_file
Captured(s, name, res) ==
    LET new == Append(s, Save(name))
    IN /\ manager_dir' =
              [manager_dir EXCEPT
                  ![profile_dir] = SavesWritten(Snapshot(@, name, LiveDir), new)]
       /\ saves' = new
       /\ captured' = [captured EXCEPT ![profile_dir][_hash(name)] = LiveDir]
       /\ Ran("CREATE", res, 0, 0)
       /\ UNCHANGED <<installed, profiles_file, live, profiles, default, profile,
                      last_save, ctl, startLive, activated, burst>>

_create(name, result) ==
    /\ state = "MODE_SELECT"
    /\ IF ~isdir(LiveDir)
         THEN name = 1 /\ result /\ Unchanged("CREATE", "no game directory", 0)
         ELSE IF Exists(SaveDir(name))
                THEN IF ~result
                       THEN Unchanged("CREATE", "declined", 0)
                       ELSE Captured(Overwritten(saves, name), name, "overwritten")
                ELSE result /\ Captured(saves, name, "created")

(***************************************************************************)
(* Manager._reorder.                                                       *)
(***************************************************************************)
\* save = self.saves.pop(save_number)
Popped(s, save_number) == DelAt(s, save_number)
\* self.saves.insert(new_position, save)
Reordered(s, save_number, new_position) ==
    InsertAt(Popped(s, save_number), new_position, s[save_number + 1])

_reorder(save_number, new_position) ==
    /\ state = "MODE_SELECT"
    /\ IF saves = <<>>
         THEN /\ save_number = 0 /\ new_position = 0
              /\ Unchanged("REORDER", "NoSaveException", 0)
         ELSE /\ save_number \in 0..(Len(saves) - 1)
              /\ IF Popped(saves, save_number) = <<>>
                   \* the second _saves_to_choices raises on the popped list
                   THEN /\ new_position = 0
                        /\ saves' = Popped(saves, save_number)
                        /\ Ran("REORDER", "NoSaveException", 0, 0)
                        /\ UNCHANGED <<disk, profiles, default, profile,
                                       last_save, ctl, startLive, captured,
                                       activated, burst>>
                   ELSE /\ new_position \in 0..Len(Popped(saves, save_number))
                        /\ saves' = Reordered(saves, save_number, new_position)
                        /\ manager_dir' =
                              [manager_dir EXCEPT
                                  ![profile_dir] = SavesWritten(@, saves')]
                        /\ Ran("REORDER", "ok", 0, 0)
                        /\ UNCHANGED <<installed, profiles_file, live, profiles, default,
                                       profile, last_save, ctl, startLive,
                                       captured, activated, burst>>

(***************************************************************************)
(* Manager._delete.                                                        *)
(***************************************************************************)
\* mutant of LastSaveAfterDelete: a greater last_save is not shifted down
LastSaveNotShifted(last, save_number) ==
    IF save_number = last THEN -1 ELSE last
\* the adjustment of self.last_save after del self.saves[save_number]
LastSaveAfterDelete(last, save_number) ==
    IF save_number = last THEN -1
    ELSE IF save_number < last THEN last - 1
    ELSE last

_delete(save_number, confirmed) ==
    /\ state = "MODE_SELECT"
    /\ IF saves = <<>>
         THEN /\ save_number = 0 /\ confirmed
              /\ Unchanged("DELETE", "NoSaveException", 0)
         ELSE /\ save_number \in 0..(Len(saves) - 1)
              /\ LET name == saves[save_number + 1].name
                 IN IF ~confirmed
                      THEN Unchanged("DELETE", "declined", 0)
                      ELSE IF ~Exists(SaveDir(name))
                             \* shutil.rmtree raises FileNotFoundError
                             THEN /\ Crash("DELETE", save_number)
                                  /\ UNCHANGED <<disk, mem, startLive,
                                                 captured, activated, burst>>
                             ELSE /\ saves' = DelAt(saves, save_number)
                                  /\ manager_dir' =
                                        [manager_dir EXCEPT
                                            ![profile_dir] =
                                                SavesWritten(
                                                    SnapshotRemoved(@, name),
                                                    saves')]
                                  /\ last_save' =
                                        LastSaveAfterDelete(last_save,
                                                            save_number)
                                  /\ activated' =
                                        IF last_save' = -1 THEN 0 ELSE activated
                                  /\ captured' =
                                        [captured EXCEPT
                                            ![profile_dir][_hash(name)] = NoDir]
                                  /\ Ran("DELETE", "ok", save_number, last_save)
                                  /\ UNCHANGED <<installed, profiles_file, live, profiles,
                                                 default, profile, ctl,
                                                 startLive, burst>>

(***************************************************************************)
(* The game: it owns the live directory and rewrites it (making it again   *)
(* when it is gone) while no swap is running.                              *)
(***************************************************************************)
GameWrite(g, t) ==
    /\ pc = "idle"
    /\ live' = [live EXCEPT ![g] = Tree(t)]
    /\ Ran("WRITE", "ok", 0, 0)
    /\ UNCHANGED <<installed, profiles_file, manager_dir, mem, ctl, startLive, captured,
                   activated, burst>>

(***************************************************************************)
(* Manager._set_profile and Manager.__init__ with the start of _mainloop    *)
(* (the program is started, or started again after it ended).              *)
(***************************************************************************)
\* _set_profile(profile): last_save is not touched
_set_profile(p) ==
    /\ profile' = p
    /\ saves' = SavesRead(manager_dir[_hash(p.name)])

\* pickle.load of PROFILES, or ProfileList()
ProfilesRead ==
    IF profiles_file.exists
        THEN profiles_file.data
        ELSE [profiles |-> <<>>, default |-> 0]

\* if not os.path.exists(self.manager_dir): os.mkdir(self.manager_dir); return
\* leaves every attribute unset, and _mainloop raises AttributeError on
\* self.profile: the program does not start
__init__unset ==
    /\ installed' = TRUE
    /\ profiles' = <<>> /\ default' = 0 /\ last_save' = -1
    /\ profile' = None /\ saves' = <<>>
    /\ state' = "CRASHED"
    /\ Ran("INIT", "AttributeError", 0, 0)
    /\ UNCHANGED <<profiles_file, manager_dir, live>>

__init__ ==
    /\ state \in {"OFF", "CRASHED"}
    /\ IF ~installed
         THEN __init__unset
         ELSE /\ profiles' = ProfilesRead.profiles
              /\ default' = ProfilesRead.default
              /\ last_save' = -1
              /\ IF ProfilesRead.profiles = <<>>
                   \* get_default returns None; _mainloop starts in
                   \* MenuState.PROFILE
                   THEN profile' = None /\ saves' = <<>> /\ state' = "PROFILE"
                   ELSE IF ProfilesRead.default >= Len(ProfilesRead.profiles)
                          \* get_default raises IndexError: the program does
                          \* not start
                          THEN /\ profile' = None /\ saves' = <<>>
                               /\ state' = "CRASHED"
                          ELSE /\ _set_profile(
                                      ProfilesRead.profiles[
                                          ProfilesRead.default + 1])
                               /\ state' = "MODE_SELECT"
              /\ Ran("INIT", "ok", 0, 0)
              /\ UNCHANGED disk
    /\ pc' = "idle" /\ index' = 0 /\ loop' = NoLoop
    /\ startLive' = NoDir /\ activated' = 0 /\ burst' = NoBurst
    /\ UNCHANGED captured

(***************************************************************************)
(* The store specification: the save operations of one selected profile    *)
(* (profile 1 with game directory 1, no saves yet), the game writing, and  *)
(* a copy that may fail.                                                   *)
(***************************************************************************)
StoreInit ==
    /\ installed = TRUE
    /\ profiles = <<Profile(1, 1)>>
    /\ default = 0
    /\ profiles_file = File([profiles |-> <<Profile(1, 1)>>, default |-> 0])
    /\ manager_dir =
          [p \in ProfileTokens |->
              IF p = _hash(1) THEN EmptyProfileDir ELSE NoProfileDir]
    /\ live \in {[g \in GameDirs |-> IF g = 1 THEN t ELSE Tree(1)] : t \in Trees}
    /\ profile = Profile(1, 1)
    /\ saves = <<>>
    /\ last_save = -1
    /\ state = "MODE_SELECT" /\ pc = "idle" /\ index = 0 /\ loop = NoLoop
    /\ startLive = NoDir
    /\ captured = NoCaptures
    /\ once = NoOnce
    /\ last_op = Op("INIT", "ok", 0, 0)
    /\ activated = 0
    /\ burst = NoBurst

StoreNext ==
    \/ \E n \in 0..(MaxStoreSaves - 1) : _load(n)
    \/ _reload
    \/ _set_save_move
    \/ _set_save_copytree
    \/ \E left \in {NoDir, Partial} : _set_save_copytree_error(left)
    \/ \E name \in StoreSaveNames, result \in BOOLEAN : _create(name, result)
    \/ \E n \in 0..(MaxStoreSaves - 1), m \in 0..MaxStoreSaves : _reorder(n, m)
    \/ \E n \in 0..(MaxStoreSaves - 1), c \in BOOLEAN : _delete(n, c)
    \/ \E t \in 1..MaxTree : GameWrite(1, t)
    \/ __init__

SpecStore == StoreInit /\ [][StoreNext]_vars

(***************************************************************************)
(* The profile handlers.  The main loop is in MenuState.PROFILE: _profile  *)
(* offers them, and only _select_profile leads back to MODE_SELECT.        *)
(***************************************************************************)
\* _select returns MenuState.PROFILE ("manage profiles")
_select ==
    /\ state = "MODE_SELECT"
    /\ state' = "PROFILE"
    /\ Ran("MODE_SELECT", "PROFILE", 0, 0)
    /\ UNCHANGED <<disk, mem, pc, index, loop, startLive, captured, activated,
                   burst>>

\* a profile handler returns MenuState.PROFILE without a change
UnchangedProfile(op, res) ==
    /\ Ran(op, res, 0, 0)
    /\ UNCHANGED <<disk, mem, ctl, startLive, captured, activated, burst>>

_select_profile(i) ==
    /\ state = "PROFILE"
    /\ IF profiles = <<>>
         THEN i = 0 /\ UnchangedProfile("PROFILE_SELECT", "NoProfileException")
         ELSE /\ i \in 0..(Len(profiles) - 1)
              /\ _set_profile(profiles[i + 1])
              /\ state' = "MODE_SELECT"
              /\ Ran("PROFILE_SELECT", "ok", i, 0)
              /\ UNCHANGED <<disk, profiles, default, last_save, pc, index, loop,
                             startLive, captured, activated, burst>>

\* _write_profiles_file: pickle.dump(self.profiles, handle)
ProfilesWritten(ps, d) == File([profiles |-> ps, default |-> d])

\* self.profiles.profiles.append(profile)
ProfileAdded(ps, name, dir) == Append(ps, Profile(name, dir))

\* shutil.rmtree(profile_dir) if it exists, the choice of a game directory
\* that is a directory, the append, os.mkdir(profile_dir), the write
_create_profile(name, confirmed, dir) ==
    /\ state = "PROFILE"
    /\ Len(profiles) < MaxProfiles
    /\ IF manager_dir[_hash(name)].exists /\ ~confirmed
         THEN dir = 1 /\ UnchangedProfile("PROFILE_CREATE", "declined")
         ELSE /\ manager_dir[_hash(name)].exists \/ confirmed
              /\ Exists(live[dir])
              /\ profiles' = ProfileAdded(profiles, name, dir)
              /\ manager_dir' =
                    [manager_dir EXCEPT ![_hash(name)] = EmptyProfileDir]
              /\ profiles_file' = ProfilesWritten(profiles', default)
              /\ captured' =
                    [captured EXCEPT ![_hash(name)] = NoCaptures[_hash(name)]]
              /\ Ran("PROFILE_CREATE",
                     IF manager_dir[_hash(name)].exists
                         THEN "overwritten" ELSE "created", name, dir)
              /\ UNCHANGED <<installed, live, default, profile, saves,
                             last_save, ctl, startLive, activated, burst>>

_set_default_profile(i) ==
    /\ state = "PROFILE"
    /\ IF profiles = <<>>
         THEN i = 0
              /\ UnchangedProfile("PROFILE_SET_DEFAULT", "NoProfileException")
         ELSE IF default >= Len(profiles)
                \* choices[self.profiles.default] raises IndexError
                THEN /\ i = 0
                     /\ Crash("PROFILE_SET_DEFAULT", 0)
                     /\ UNCHANGED <<disk, mem, startLive, captured, activated, burst>>
                ELSE /\ i \in 0..(Len(profiles) - 1)
                     /\ default' = i
                     /\ profiles_file' = ProfilesWritten(profiles, default')
                     /\ Ran("PROFILE_SET_DEFAULT", "ok", i, 0)
                     /\ UNCHANGED <<installed, manager_dir, live, profiles,
                                    profile, saves,
                                    last_save, ctl, startLive, captured,
                                    activated, burst>>

\* if self.profiles.default == index: self.profiles.default = 0
DefaultAfterDelete(d, i) == IF d = i THEN 0 ELSE d

_delete_profile(i, confirmed) ==
    /\ state = "PROFILE"
    /\ IF profiles = <<>>
         THEN /\ i = 0 /\ confirmed
              /\ UnchangedProfile("PROFILE_DELETE", "NoProfileException")
         ELSE /\ i \in 0..(Len(profiles) - 1)
              /\ LET name == profiles[i + 1].name
                 IN IF ~confirmed
                      THEN UnchangedProfile("PROFILE_DELETE", "declined")
                      ELSE IF ~manager_dir[_hash(name)].exists
                             \* shutil.rmtree raises FileNotFoundError
                             THEN /\ Crash("PROFILE_DELETE", i)
                                  /\ UNCHANGED <<disk, mem, startLive,
                                                 captured, activated, burst>>
                             ELSE /\ manager_dir' =
                                        [manager_dir EXCEPT
                                            ![_hash(name)] = NoProfileDir]
                                  /\ default' = DefaultAfterDelete(default, i)
                                  /\ profiles' = DelAt(profiles, i)
                                  /\ profiles_file' =
                                        ProfilesWritten(profiles', default')
                                  /\ captured' =
                                        [captured EXCEPT
                                            ![_hash(name)] =
                                                NoCaptures[_hash(name)]]
                                  /\ Ran("PROFILE_DELETE", "ok", i, 0)
                                  /\ UNCHANGED <<installed, live, profile, saves,
                                                 last_save, ctl, startLive,
                                                 activated, burst>>

(***************************************************************************)
(* The full specification: an installation with no stored state (the       *)
(* manager directory holds no PROFILES file, or does not exist yet) on     *)
(* which the program is about to be started; every game directory exists.  *)
(* The profile handlers and the save handlers.                             *)
(***************************************************************************)
Init ==
    /\ installed \in BOOLEAN
    /\ profiles = <<>>
    /\ default = 0
    /\ profiles_file = NoFile
    /\ manager_dir = [p \in ProfileTokens |-> NoProfileDir]
    /\ live = [g \in GameDirs |-> Tree(1)]
    /\ profile = None
    /\ saves = <<>>
    /\ last_save = -1
    /\ state = "OFF" /\ pc = "idle" /\ index = 0 /\ loop = NoLoop
    /\ startLive = NoDir
    /\ captured = NoCaptures
    /\ once = NoOnce
    /\ last_op = Op("OFF", "ok", 0, 0)
    /\ activated = 0
    /\ burst = NoBurst

Next ==
    \/ _select
    \/ \E i \in 0..(MaxProfiles - 1) : _select_profile(i)
    \/ \E name \in ProfileNames, c \in BOOLEAN, dir \in GameDirs :
           _create_profile(name, c, dir)
    \/ \E i \in 0..(MaxProfiles - 1) : _set_default_profile(i)
    \/ \E i \in 0..(MaxProfiles - 1), c \in BOOLEAN : _delete_profile(i, c)
    \/ \E n \in 0..(MaxSaves - 1) : _load(n)
    \/ _reload
    \/ _set_save_move
    \/ _set_save_copytree
    \/ \E name \in SaveNames, result \in BOOLEAN : _create(name, result)
    \/ \E n \in 0..(MaxSaves - 1), m \in 0..MaxSaves : _reorder(n, m)
    \/ \E n \in 0..(MaxSaves - 1), c \in BOOLEAN : _delete(n, c)
    \/ __init__

Spec == Init /\ [][Next]_vars

(***************************************************************************)
(* Manager._autoload: the chosen save is set, then the loop polls the last *)
(* modification time of the game directory and sets the save again after   *)
(* each burst of writes.  pc is "baseline" before the sample that follows  *)
(* a _set_save (lines 338 and 361), "armed" in the sleep of line 344,      *)
(* "burst" in the sleep of line 351, "settled" when the for loop is left.  *)
(***************************************************************************)
MAX_ACTIVE_POLLS == 10

\* mutant of Detected: any change of the time counts, not only an increase
DetectedChanged(current_time, last_time) == current_time # last_time
\* if current_time > last_time
Detected(current_time, last_time) == current_time > last_time

\* if current_time == last_time: break
Settled(current_time, last_time) == current_time = last_time

\* mutant of Exhausted: the for loop makes one iteration more
ExhaustedLate(polls) == polls > MAX_ACTIVE_POLLS
\* for _ in range(MAX_ACTIVE_POLLS): the loop ends after that many iterations
Exhausted(polls) == polls >= MAX_ACTIVE_POLLS

\* mutant of Baseline: the last sample of the burst is kept as the baseline
BaselineKept(sample, current_time) == current_time
\* last_time = self._get_last_modified_time_in_profile(), after _set_save
Baseline(sample, current_time) == sample

\* os.path.getmtime raises FileNotFoundError on a missing game directory;
\* only KeyboardInterrupt is caught
SampleFailed ==
    /\ Crash("AUTOLOAD", 0)
    /\ UNCHANGED <<disk, mem, startLive, captured, activated, burst>>

\* the choice of a save and the first step of its _set_save
_autoload(save_number) ==
    /\ state = "MODE_SELECT"
    /\ IF saves = <<>>
         THEN save_number = 0 /\ Unchanged("AUTOLOAD", "NoSaveException", 0)
         ELSE /\ save_number \in 0..(Len(saves) - 1)
              /\ SetSaveStart(save_number, "AUTOLOAD")
              /\ loop' = [NoLoop EXCEPT !.save_number = save_number]

\* the sample after a _set_save; the first one is followed by the try block
_autoload_baseline ==
    /\ state = "AUTOLOAD" /\ pc = "baseline"
    /\ IF ~Exists(LiveDir)
         THEN SampleFailed
         ELSE /\ loop' = [loop EXCEPT
                             !.last_time =
                                 Baseline(getmtime(LiveDir), loop.current_time),
                             !.tried = TRUE]
              /\ pc' = "armed"
              /\ burst' = [burst EXCEPT !.open = FALSE]
              /\ Ran("AUTOLOAD", "baseline", 0, 0)
              /\ UNCHANGED <<disk, mem, state, index, startLive, captured,
                             activated>>

\* time.sleep(POLL_INTERVAL) and the sample of the while loop
_autoload_poll ==
    /\ state = "AUTOLOAD" /\ pc = "armed"
    /\ IF ~Exists(LiveDir)
         THEN SampleFailed
         ELSE LET sample == getmtime(LiveDir)
                  detected == Detected(sample, loop.last_time)
              IN /\ loop' = [loop EXCEPT !.current_time = sample,
                                         !.polls = IF detected THEN 0 ELSE @]
                 /\ pc' = IF detected THEN "burst" ELSE "armed"
                 /\ burst' = IF detected
                               THEN [NoBurst EXCEPT !.t0 = loop.last_time,
                                                    !.t1 = sample,
                                                    !.open = TRUE]
                               ELSE burst
                 /\ Ran("AUTOLOAD", IF detected THEN "detected" ELSE "poll",
                        0, 0)
                 /\ UNCHANGED <<disk, mem, state, index, startLive, captured,
                                activated>>

\* one iteration of the for loop: time.sleep(ACTIVE_POLL_INTERVAL), the
\* sample, and the break when it equals the sample before
_autoload_burst ==
    /\ state = "AUTOLOAD" /\ pc = "burst"
    /\ IF ~Exists(LiveDir)
         THEN SampleFailed
         ELSE LET sample == getmtime(LiveDir)
                  last == loop.current_time
                  polls == loop.polls + 1
              IN /\ loop' = [loop EXCEPT !.last_time = last,
                                         !.current_time = sample,
                                         !.polls = polls]
                 /\ pc' = IF Settled(sample, last) \/ Exhausted(polls)
                            THEN "settled" ELSE "burst"
                 /\ burst' = [burst EXCEPT !.settled = (sample = last)]
                 /\ Ran("AUTOLOAD", "sample", 0, 0)
                 /\ UNCHANGED <<disk, mem, state, index, startLive, captured,
                                activated>>

\* self._set_save(save_number) after the for loop: its first step
_autoload_set_save ==
    /\ state = "AUTOLOAD" /\ pc = "settled"
    /\ SetSaveStart(loop.save_number, "AUTOLOAD")
    /\ UNCHANGED loop

\* ctrl+c while _autoload runs.  Inside the try block it is caught wherever
\* it lands and _autoload returns MenuState.MODE_SELECT; before the try block
\* main catches it and the program exits.  When it lands in copytree the
\* live directory is left missing or partly copied.
KeyboardInterrupt(left) ==
    /\ state = "AUTOLOAD"
    /\ IF pc = "moved"
         THEN live' = [live EXCEPT ![game_directory] = left]
         ELSE left = NoDir /\ UNCHANGED live
    /\ state' = IF loop.tried THEN "MODE_SELECT" ELSE "OFF"
    /\ pc' = "idle" /\ index' = 0 /\ loop' = NoLoop
    /\ last_op' = Op("AUTOLOAD", "KeyboardInterrupt",
                     IF pc \in {"cleared", "moved"} THEN 1 ELSE 0, 0)
    /\ once' = NoOnce
    /\ burst' = NoBurst
    /\ UNCHANGED <<installed, profiles_file, manager_dir, mem, startLive,
                   captured, activated>>

\* the running game rewrites the save files in its directory, at any moment
GameSave(g, t) ==
    /\ Exists(live[g])
    /\ live' = [live EXCEPT ![g] = Tree(t)]
    /\ burst' = [burst EXCEPT !.wrote = TRUE]
    /\ Ran("WRITE", "ok", 0, 0)
    /\ UNCHANGED <<installed, profiles_file, manager_dir, mem, ctl, startLive,
                   captured, activated>>

(***************************************************************************)
(* The autoload specification: profile 1 is selected and its store holds   *)
(* MaxSaves saves, each captured from another tree; the game is running.   *)
(***************************************************************************)
\* the tree save k was captured from
AutoTree(k) == Tree(((k - 1) % MaxTree) + 1)
AutoSaves == [k \in 1..MaxSaves |-> Save(k)]
AutoSnaps ==
    [h \in SaveTokens |->
        IF \E k \in 1..MaxSaves : h = _hash(k)
            THEN AutoTree(CHOOSE k \in 1..MaxSaves : h = _hash(k))
            ELSE NoDir]

AutoInit ==
    /\ installed = TRUE
    /\ profiles = <<Profile(1, 1)>>
    /\ default = 0
    /\ profiles_file = File([profiles |-> <<Profile(1, 1)>>, default |-> 0])
    /\ manager_dir =
          [p \in ProfileTokens |->
              IF p = _hash(1)
                  THEN [EmptyProfileDir EXCEPT !.SAVES = File(AutoSaves),
                                               !.snaps = AutoSnaps]
                  ELSE NoProfileDir]
    /\ live \in {[g \in GameDirs |-> IF g = 1 THEN t ELSE Tree(1)] : t \in Trees}
    /\ profile = Profile(1, 1)
    /\ saves = AutoSaves
    /\ last_save = -1
    /\ state = "MODE_SELECT" /\ pc = "idle" /\ index = 0 /\ loop = NoLoop
    /\ startLive = NoDir
    /\ captured = [NoCaptures EXCEPT ![_hash(1)] = AutoSnaps]
    /\ once = NoOnce
    /\ last_op = Op("INIT", "ok", 0, 0)
    /\ activated = 0
    /\ burst = NoBurst

\* the steps of the one thread that runs _autoload
LoopStep ==
    \/ _set_save_move
    \/ _set_save_copytree
    \/ _autoload_baseline
    \/ _autoload_poll
    \/ _autoload_burst
    \/ _autoload_set_save

AutoNext ==
    \/ \E n \in 0..(MaxSaves - 1) : _autoload(n)
    \/ _set_save_move
    \/ _set_save_copytree
    \/ _autoload_baseline
    \/ _autoload_poll
    \/ _autoload_burst
    \/ _autoload_set_save
    \/ \E left \in {NoDir, Partial} : KeyboardInterrupt(left)
    \/ \E t \in 1..MaxTree : GameSave(1, t)
    \/ __init__

SpecAuto == AutoInit /\ [][AutoNext]_vars

\* the thread is scheduled: a blocking sleep ends and the next statement runs
SpecAutoFair == SpecAuto /\ WF_vars(LoopStep)

(***************************************************************************)
(* Properties of the store specification.                                  *)
(***************************************************************************)
\* a swap is between its first and its last step
Swapping == pc \in {"cleared", "moved"}
\* the state right after _set_save raised
SwapFailed ==
    state = "CRASHED" /\ last_op.res = "crash" /\ last_op.op \in {"LOAD", "RELOAD"}

\* C1: during _set_save the live data is never deleted outright: when the
\* live directory existed as the swap started, at every point between the
\* steps its contents of that moment are intact at the live path or at the
\* backup path; and when the copy fails nothing is rolled back: the backup
\* still holds them.
C1_LiveNeverLost ==
    /\ (Swapping /\ Exists(startLive)) =>
          (LiveDir = startLive \/ PD.backup = startLive)
    /\ (SwapFailed /\ Exists(startLive)) => PD.backup = startLive

\* a copy failed part-way: the live directory is partially populated and
\* the backup holds the tree the live directory held before the swap
C1_Witness ==
    /\ SwapFailed /\ startLive \in Trees
    /\ LiveDir = Partial /\ PD.backup = startLive

\* the last step was the completion of a _set_save (of the n-th in a row
\* with the same index)
Completed(n) == once.n = n /\ pc = "idle"

\* C2: round trip: when an activation has completed, the live directory
\* holds the tree that was live when the activated save was captured,
\* whatever the live directory held in between.
C2_RoundTrip ==
    (Completed(1) \/ Completed(2)) =>
        /\ Exists(LiveDir)
        /\ LiveDir = captured[profile_dir][_hash(PyAt(saves, once.index).name)]

\* an activation completed over a live directory that held another tree
\* than the captured one (it is now the backup)
C2_Witness ==
    /\ Completed(1) /\ LiveDir \in Trees
    /\ LiveDir = captured[profile_dir][_hash(PyAt(saves, once.index).name)]
    /\ PD.backup \in Trees /\ PD.backup # LiveDir

\* C3: idempotence of activate: after a second _set_save with the same
\* index right after the first, the live directory, the save list and
\* last_save are what they were after the first; the stored snapshot is
\* what it was before the first.
C3_ActivateIdempotent ==
    /\ (Completed(1) \/ Completed(2)) =>
          SaveDir(PyAt(saves, once.index).name) = once.snap
    /\ Completed(2) =>
          /\ LiveDir = once.live
          /\ saves = once.saves
          /\ last_save = once.last_save

\* a second activation of the same index has completed: the backup it made
\* holds the tree the first one installed
C3_Witness ==
    Completed(2) /\ LiveDir \in Trees /\ PD.backup = LiveDir /\ Len(saves) >= 2

\* C4: a confirmed delete(i) removes exactly the record at i (the others
\* keep their order) and its snapshot directory, rewrites the index, and
\* sets last_save to none if it was i, one less if it was greater than i,
\* and leaves it if it was smaller.
C4_Delete ==
    [][(last_op'.op = "DELETE" /\ last_op'.res = "ok") =>
          LET i == last_op'.a
              gone == _hash(saves[i + 1].name)
          IN /\ Len(saves') = Len(saves) - 1
             /\ \A k \in 1..Len(saves') :
                    saves'[k] = IF k <= i THEN saves[k] ELSE saves[k + 1]
             /\ manager_dir'[profile_dir].snaps[gone] = NoDir
             /\ \A t \in SaveTokens \ {gone} :
                    manager_dir'[profile_dir].snaps[t] = PD.snaps[t]
             /\ manager_dir'[profile_dir].SAVES = File(saves')
             /\ last_save' = IF last_save = i THEN -1
                             ELSE IF last_save > i THEN last_save - 1
                             ELSE last_save
      ]_vars

\* the store [A,B,C] with last_save = 2 after delete(0): [B,C], last_save = 1
C4_Witness ==
    /\ last_op = Op("DELETE", "ok", 0, 2)
    /\ Len(saves) = 2 /\ last_save = 1

\* C5 (as claimed): a reorder of a non-empty store, a store of one save
\* included, leaves a permutation of the saves: no record lost or doubled.
C5_ReorderPermutation ==
    [][(last_op'.op = "REORDER" /\ saves # <<>>) =>
          /\ Len(saves') = Len(saves)
          /\ Range(saves') = Range(saves)
      ]_vars

\* C6 (as claimed): at the menu, last_save is none or the index of the very
\* save that was activated last.
C6_LastLoadedIsActivated ==
    (state = "MODE_SELECT" /\ last_save # -1) =>
        /\ last_save \in 0..(Len(saves) - 1)
        /\ saves[last_save + 1].name = activated

\* C10: a confirmed overwrite of an existing save keeps the number of
\* records, removes the old entry and leaves exactly one record of that
\* name, at the end, and the snapshot directory holds the live contents; a
\* declined overwrite changes neither the list nor anything on disk.
C10_Overwrite ==
    [][/\ (/\ last_op'.op = "CREATE" /\ last_op'.res = "overwritten"
           /\ \E k \in 1..Len(saves) :
                  saves[k].name = saves'[Len(saves')].name) =>
             LET name == saves'[Len(saves')].name
                 Count(s, n) == Cardinality({k \in 1..Len(s) : s[k].name = n})
             IN /\ Len(saves') = Len(saves)
                /\ Count(saves', name) = 1
                /\ \A n \in AllSaveNames \ {name} :
                       Count(saves', n) = Count(saves, n)
                /\ manager_dir'[profile_dir].snaps[_hash(name)] = LiveDir
                /\ manager_dir'[profile_dir].SAVES = File(saves')
       /\ (last_op'.op = "CREATE" /\ last_op'.res = "declined") =>
             /\ saves' = saves
             /\ manager_dir' = manager_dir
      ]_vars

\* a save of a store of three was overwritten: its record is the last of the
\* list and its snapshot holds the live tree, which another snapshot does not
C10_Witness ==
    /\ last_op.op = "CREATE" /\ last_op.res = "overwritten"
    /\ Len(saves) = 3
    /\ SaveDir(saves[3].name) = LiveDir
    /\ \E n \in AllSaveNames : SaveDir(n) \in Trees /\ SaveDir(n) # LiveDir

\* C14 (as claimed): a save handler started from the menu raises
\* NoSaveException exactly when the save list is empty as it starts, and
\* then the list, last_save, the SAVES file and every directory are
\* unchanged and the main loop is back in MenuState.MODE_SELECT.
C14_NoSaveIffEmpty ==
    [][(/\ state = "MODE_SELECT"
        /\ last_op'.op \in {"LOAD", "RELOAD", "AUTOLOAD", "REORDER", "DELETE"}) =>
          /\ (last_op'.res = "NoSaveException") <=> (saves = <<>>)
          /\ (last_op'.res = "NoSaveException") =>
                /\ saves' = saves /\ last_save' = last_save
                /\ manager_dir' = manager_dir /\ live' = live
                /\ state' = "MODE_SELECT"
      ]_vars

\* C15 (as claimed): at the menu the SAVES file of the active profile holds
\* the in-memory save list (no file: the empty list).
C15_IndexPersisted ==
    (state = "MODE_SELECT" /\ pc = "idle") => SavesRead(PD) = saves

\* C17: _create with no live game directory changes nothing: the save list,
\* last_save, the SAVES file and every snapshot directory are as before, no
\* record is added, and the main loop is back in MenuState.MODE_SELECT.
C17_CreateWithoutGameDirectory ==
    [][(last_op'.op = "CREATE" /\ LiveDir = NoDir) =>
          /\ last_op'.res = "no game directory"
          /\ saves' = saves /\ last_save' = last_save
          /\ manager_dir' = manager_dir /\ live' = live
          /\ state' = "MODE_SELECT"
      ]_vars

\* _create was refused on a store that holds saves while the live directory
\* is gone (a failed copy left only the backup)
C17_Witness ==
    /\ last_op = Op("CREATE", "no game directory", 0, 0)
    /\ state = "MODE_SELECT" /\ ~Exists(LiveDir)
    /\ Len(saves) >= 1 /\ SavesRead(PD) = saves
    /\ PD.backup \in Trees

(***************************************************************************)
(* Properties of the full specification.                                   *)
(***************************************************************************)
\* C7 (as claimed): whenever the registry is non-empty, default is a valid
\* index into it, so get_default returns a profile.
C7_DefaultValid ==
    profiles # <<>> => default \in 0..(Len(profiles) - 1)

\* C8 (as claimed): no two entries of the registry have the same name.
C8_UniqueProfileNames ==
    \A i, j \in 1..Len(profiles) :
        i # j => profiles[i].name # profiles[j].name

\* C9 (as claimed), for the records: between handlers, the records of the
\* active profile's in-memory save list have distinct names and each has
\* its snapshot directory, named by the hash of its name, under the
\* profile's directory.
C9_RecordsHaveSnapshots ==
    (profile # None /\ state \in {"MODE_SELECT", "PROFILE"}) =>
        /\ \A i, j \in 1..Len(saves) : i # j => saves[i].name # saves[j].name
        /\ \A i \in 1..Len(saves) : Exists(SaveDir(saves[i].name))

\* C9 (as claimed), for the directories: between handlers, every snapshot
\* directory under the active profile's directory has a record.
C9_SnapshotsHaveRecords ==
    (profile # None /\ state \in {"MODE_SELECT", "PROFILE"}) =>
        \A n \in AllSaveNames :
            Exists(SaveDir(n)) => \E i \in 1..Len(saves) : saves[i].name = n

(***************************************************************************)
(* Properties of the autoload specification.                               *)
(***************************************************************************)
\* the loop has just returned to the sleep of the while loop (ARMED) after
\* a burst: the last step was the sample that follows _set_save
JustRearmed ==
    /\ state = "AUTOLOAD" /\ pc = "armed"
    /\ last_op = Op("AUTOLOAD", "baseline", 0, 0)
    /\ burst.t1 > burst.t0
\* the burst settled at once: the first sample of the for loop read the time
\* t1 that the detecting poll had read
SettledAtOnce == JustRearmed /\ loop.polls = 1 /\ burst.settled
\* the modification time of the snapshot _autoload restores
RestoredTime == getmtime(SaveDir(SaveToSet(saves, loop.save_number)))

\* C11 (as claimed): armed at baseline t0, a write raises the time to t1 and
\* two consecutive samples read t1: _set_save is called exactly once and the
\* loop is armed again with baseline t1.
C11_SettleBaselineT1 ==
    SettledAtOnce => (burst.acts = 1 /\ loop.last_time = burst.t1)

\* C11 (amended): in that scenario _set_save is called exactly once and the
\* loop is armed again with the baseline read after the _set_save: the
\* modification time of the directory as restored from the snapshot (unless
\* the game has written again in between), not t1.
C11_SettleRebaselined ==
    SettledAtOnce =>
        /\ burst.acts = 1
        /\ burst.wrote \/ loop.last_time = RestoredTime

\* a burst that settled at once was followed by one _set_save, and the new
\* baseline is the time of the restored snapshot, which is not t1
C11_Witness ==
    /\ SettledAtOnce /\ burst.acts = 1 /\ ~burst.wrote
    /\ loop.last_time = RestoredTime /\ loop.last_time # burst.t1
    /\ LiveDir = SaveDir(SaveToSet(saves, loop.save_number))

\* the burst never settled: the last sample of the for loop differed from
\* the one before
NeverSettled == JustRearmed /\ ~burst.settled

Stopped ==
    /\ state = "MODE_SELECT"
    /\ last_op.op = "AUTOLOAD" /\ last_op.res = "KeyboardInterrupt"
\* a _set_save is half done: the live directory was moved to backup and the
\* snapshot is not, or not fully, copied to the live path
HalfSwapped ==
    /\ Exists(startLive) /\ PD.backup = startLive
    /\ ~Exists(LiveDir) \/ LiveDir = Partial

\* C13 (as claimed): the loop never stops with a _set_save half done.
C13_NeverStoppedMidSwap == Stopped => ~HalfSwapped

\* C18: while the loop is armed, a poll whose sample is not greater than the
\* baseline leaves it armed with the same baseline and leaves the live
\* directory, the backup and last_save alone; and inside the loop _set_save
\* starts only in a burst opened by a poll that read a time greater than
\* the baseline.
C18_ArmedPollIsNoOp ==
    [][/\ (/\ state = "AUTOLOAD" /\ pc = "armed"
           /\ last_op'.op = "AUTOLOAD" /\ last_op'.res \in {"poll", "detected"}
           /\ getmtime(LiveDir) <= loop.last_time) =>
             /\ state' = "AUTOLOAD" /\ pc' = "armed"
             /\ loop'.last_time = loop.last_time
             /\ live' = live
             /\ manager_dir' = manager_dir
             /\ last_save' = last_save
       /\ (state = "AUTOLOAD" /\ loop.tried /\ pc # "cleared"
              /\ pc' = "cleared") =>
             (burst.open /\ burst.t1 > burst.t0)
      ]_vars

\* the game put an older tree in place of the restored one and the loop
\* polled it: the loop is still armed with the baseline of the restored tree
C18_Witness ==
    /\ state = "AUTOLOAD" /\ pc = "armed"
    /\ last_op = Op("AUTOLOAD", "poll", 0, 0)
    /\ loop.current_time < loop.last_time
    /\ LiveDir # SaveDir(SaveToSet(saves, loop.save_number))
    /\ Exists(PD.backup)

(***************************************************************************)
(* Further properties of the full specification.                           *)
(***************************************************************************)
\* C16 (as claimed): started on an installation with no PROFILES file,
\* whether or not the manager directory exists, the program comes up in
\* MenuState.PROFILE with an empty registry; the first profile created is
\* the default, and PROFILES then holds that list and default index.
C16_FirstRun ==
    [][/\ (last_op'.op = "INIT" /\ ~profiles_file.exists) =>
             /\ state' = "PROFILE"
             /\ profiles' = <<>> /\ default' = 0
       /\ (/\ last_op'.op = "PROFILE_CREATE" /\ last_op'.res = "created"
           /\ ~profiles_file.exists /\ profiles = <<>>) =>
             /\ profiles' = <<Profile(last_op'.a, last_op'.b)>>
             /\ default' \in 0..(Len(profiles') - 1)
             /\ profiles'[default' + 1] = Profile(last_op'.a, last_op'.b)
             /\ profiles_file' =
                   File([profiles |-> profiles', default |-> default'])
      ]_vars

\* C19 (as claimed): after _select_profile has switched from one profile to
\* another, last_save is none or an index into the save list of the
\* selected profile.
C19_LastLoadedValidAfterSelect ==
    [][(/\ last_op'.op = "PROFILE_SELECT" /\ last_op'.res = "ok"
        /\ profile # None /\ profile'.name # profile.name) =>
          (last_save' = -1 \/ last_save' \in 0..(Len(saves') - 1))
      ]_vars

\* C20 (as claimed): between handlers the active profile is unset or an
\* entry of the registry whose directory exists.
C20_ActiveProfileRegistered ==
    (state \in {"MODE_SELECT", "PROFILE"} /\ profile # None) =>
        /\ \E i \in 1..Len(profiles) : profiles[i] = profile
        /\ manager_dir[profile_dir].exists

====
